---- MODULE Spec2Model ----
(***************************************************************************)
(* Lead-to-task orchestration of the practice automation repository:       *)
(* processLeadToTask (workflows/lead-to-task.ts) with the readiness gate,  *)
(* the ClickUp/Slack configuration lookups and the two external calls,     *)
(* and processMultipleLeads, the serial batch runner around it.            *)
(*                                                                         *)
(* An async function runs without interruption from one await to the next, *)
(* so there is one action per such segment: the call (up to the await of   *)
(* createTask), the settlement of createTask (up to the await of           *)
(* notifyTaskCreated), the settlement of notifyTaskCreated, and for the    *)
(* batch the resumption after each awaited run and after each delay.       *)
(***************************************************************************)
EXTENDS Integers, Sequences, FiniteSets, TLC

\* ------------------------------------------------------------------ bounds
\* Largest engagement counters a modelled lead carries.
MaxOpened == 3
MaxClicked == 1
\* Longest batch handed to processMultipleLeads.
MaxLeads == 3
\* Last calendar day on which calculateDueDate is called, counted from day 0.
MaxDay == 1
\* Most calls of isActionReady made around one lead.
MaxCalls == 3
\* Most runs of processLeadToTask made one after the other on one lead.
MaxRuns == 2

\* ------------------------------------------------------------- lead domain
Undefined == "undefined"

LeadStage == {"new", "contacted", "engaged", "action-ready", "scheduled", "converted", "lost"}

\* LeadTier is 1..4 by type; 5 stands for a value outside the type that reaches
\* the code at run time.
TierValues == 1..5

Lead == [tier : TierValues, stage : LeadStage,
         emailsOpened : 0..MaxOpened, emailsClicked : 0..MaxClicked]

\* An optional counter that is not set (undefined).
Absent == -1

\* lead.emailsOpened || 0
OrZero(n) == IF n = Absent THEN 0 ELSE n

LeadTemperature == {"hot", "warm", "cold"}

\* Variant of isActionReady: a tier 2 or 3 lead whose stage is closed is not ready.
isActionReady_openStage(l) ==
  CASE l.tier = 4 -> l.stage = "engaged" \/ l.stage = "action-ready"
    [] l.tier = 3 -> /\ OrZero(l.emailsOpened) >= 2 /\ OrZero(l.emailsClicked) >= 1
                     /\ l.stage \notin {"lost", "converted", "scheduled"}
    [] l.tier = 2 -> /\ OrZero(l.emailsOpened) >= 3 \/ OrZero(l.emailsClicked) >= 1
                     /\ l.stage \notin {"lost", "converted", "scheduled"}
    [] l.tier = 1 -> l.stage = "action-ready"
    [] OTHER -> FALSE

\* Variant of isActionReady: tier 3 is ready on either threshold.
isActionReady_tier3Either(l) ==
  CASE l.tier = 4 -> l.stage = "engaged" \/ l.stage = "action-ready"
    [] l.tier = 3 -> OrZero(l.emailsOpened) >= 2 \/ OrZero(l.emailsClicked) >= 1
    [] l.tier = 2 -> OrZero(l.emailsOpened) >= 3 \/ OrZero(l.emailsClicked) >= 1
    [] l.tier = 1 -> l.stage = "action-ready"
    [] OTHER -> FALSE

isActionReady(l) ==
  CASE l.tier = 4 -> l.stage = "engaged" \/ l.stage = "action-ready"
    [] l.tier = 3 -> OrZero(l.emailsOpened) >= 2 /\ OrZero(l.emailsClicked) >= 1
    [] l.tier = 2 -> OrZero(l.emailsOpened) >= 3 \/ OrZero(l.emailsClicked) >= 1
    [] l.tier = 1 -> l.stage = "action-ready"
    [] OTHER -> FALSE

\* An optional field is set when the object has it; a string is truthy when
\* it is set and not empty.
Has(l, f) == f \in DOMAIN l
Truthy(l, f) == Has(l, f) /\ l[f] # ""

\* The fields calculateLeadTier and the task texts read, each with the empty
\* string and one value; isPregnant is a boolean.
LeadData ==
  [firstName : {"", "Sarah"}, lastName : {"", "Johnson"},
   phone : {"", "+1234567890"}, email : {"", "sarah@example.com"},
   socialHandle : {"", "@sarah"}, condition : {"", "Back pain"},
   specificCondition : {"", "Sciatica"}, birthDate : {"", "1990-05-15"},
   isPregnant : BOOLEAN]

LeadFields ==
  {"firstName", "lastName", "phone", "email", "socialHandle", "condition",
   "specificCondition", "birthDate", "isPregnant"}

\* Partial<Lead>: every choice of which of these fields are set.
PartialLead == {[f \in D |-> d[f]] : d \in LeadData, D \in SUBSET LeadFields}

\* Variant of calculateLeadTier: tier 2 is for leads with phone and email and
\* no name.
calculateLeadTier_contactOnly(l) ==
  IF /\ Truthy(l, "firstName") /\ Truthy(l, "lastName") /\ Truthy(l, "phone")
     /\ Truthy(l, "email") /\ Truthy(l, "specificCondition")
     /\ (Has(l, "isPregnant") \/ Truthy(l, "birthDate"))
  THEN 4
  ELSE IF /\ Truthy(l, "firstName") /\ Truthy(l, "lastName") /\ Truthy(l, "phone")
          /\ Truthy(l, "email") /\ Truthy(l, "condition")
  THEN 3
  ELSE IF /\ Truthy(l, "phone") /\ Truthy(l, "email")
          /\ ~Truthy(l, "firstName") /\ ~Truthy(l, "lastName")
  THEN 2
  ELSE 1

\* Variant of calculateLeadTier: isPregnant is tested for truth, not for being set.
calculateLeadTier_truthyPregnant(l) ==
  IF /\ Truthy(l, "firstName") /\ Truthy(l, "lastName") /\ Truthy(l, "phone")
     /\ Truthy(l, "email") /\ Truthy(l, "specificCondition")
     /\ ((Has(l, "isPregnant") /\ l.isPregnant) \/ Truthy(l, "birthDate"))
  THEN 4
  ELSE IF /\ Truthy(l, "firstName") /\ Truthy(l, "lastName") /\ Truthy(l, "phone")
          /\ Truthy(l, "email") /\ Truthy(l, "condition")
  THEN 3
  ELSE IF Truthy(l, "phone") /\ Truthy(l, "email") THEN 2
  ELSE 1

calculateLeadTier(l) ==
  IF /\ Truthy(l, "firstName") /\ Truthy(l, "lastName") /\ Truthy(l, "phone")
     /\ Truthy(l, "email") /\ Truthy(l, "specificCondition")
     /\ (Has(l, "isPregnant") \/ Truthy(l, "birthDate"))
  THEN 4
  ELSE IF /\ Truthy(l, "firstName") /\ Truthy(l, "lastName") /\ Truthy(l, "phone")
          /\ Truthy(l, "email") /\ Truthy(l, "condition")
  THEN 3
  ELSE IF Truthy(l, "phone") /\ Truthy(l, "email") THEN 2
  ELSE 1

\* ----------------------------------------------------------- configuration
VARIABLES CLICKUP_STRUCTURE, FRONT_DESK_TEAM

\* Each list id and the channel id is process.env.X || '', read once at load.
ClickUpStructure ==
  [lists : [tier4Urgent : {"", "list-4"}, tier3High : {"", "list-3"},
            tier2Normal : {"", "list-2"}, tier1Low : {"", "list-1"}],
   channels : [frontDesk : {"", "C-front-desk"}]]

\* Variant of getListIdForTier: tier 3 falls to the default list.
getListIdForTier_noHigh(tier) ==
  LET lists == CLICKUP_STRUCTURE.lists IN
  CASE tier = 4 -> lists.tier4Urgent
    [] tier = 1 -> lists.tier1Low
    [] OTHER -> lists.tier2Normal

getListIdForTier(tier) ==
  LET lists == CLICKUP_STRUCTURE.lists IN
  CASE tier = 4 -> lists.tier4Urgent
    [] tier = 3 -> lists.tier3High
    [] tier = 2 -> lists.tier2Normal
    [] tier = 1 -> lists.tier1Low
    [] OTHER -> lists.tier2Normal

getFrontDeskChannelId == CLICKUP_STRUCTURE.channels.frontDesk

\* The four front-desk members; their ClickUp and Slack ids are still to be
\* filled in (undefined in the source), so both fillings are modelled.
TeamMember(name, role, cu, sl) ==
  [name |-> name, role |-> role,
   clickupId |-> IF cu THEN "cu-" \o name ELSE Undefined,
   slackId |-> IF sl THEN "sl-" \o name ELSE Undefined]

FrontDeskTeam(cu, sl) ==
  << TeamMember("Lou Ann", "manager", cu, sl), TeamMember("Christina", "front-desk", cu, sl),
     TeamMember("Tricia", "front-desk", cu, sl), TeamMember("Wendy", "front-desk", cu, sl) >>

FrontDeskTeams == {FrontDeskTeam(cu, sl) : cu \in BOOLEAN, sl \in BOOLEAN}

RECURSIVE Defined(_)
\* .filter((id) => id !== undefined)
Defined(ids) ==
  IF ids = << >> THEN << >>
  ELSE IF Head(ids) = Undefined THEN Defined(Tail(ids))
  ELSE << Head(ids) >> \o Defined(Tail(ids))

getFrontDeskClickUpIds ==
  Defined([i \in 1..Len(FRONT_DESK_TEAM) |-> FRONT_DESK_TEAM[i].clickupId])

getFrontDeskSlackIds ==
  Defined([i \in 1..Len(FRONT_DESK_TEAM) |-> FRONT_DESK_TEAM[i].slackId])

\* process.env.CLICKUP_API_TOKEN / SLACK_BOT_TOKEN as read at the call.
EnvTokens == {"", "token"}

ClickUpTokenMissing == "CLICKUP_API_TOKEN must be set in environment variables"
SlackTokenMissing == "SLACK_BOT_TOKEN must be set in environment variables"

\* The client, or the message of the Error thrown.
getClickUpClient(apiToken) ==
  IF apiToken = "" THEN [thrown |-> TRUE, message |-> ClickUpTokenMissing]
  ELSE [thrown |-> FALSE]

getSlackClient(botToken) ==
  IF botToken = "" THEN [thrown |-> TRUE, message |-> SlackTokenMissing]
  ELSE [thrown |-> FALSE]

\* ------------------------------------------------------------ task builder
\* Variant of calculateTaskPriority: tier 3 falls to the default.
calculateTaskPriority_noHigh(tier) ==
  CASE tier = 4 -> "urgent"
    [] tier = 2 -> "normal"
    [] tier = 1 -> "low"
    [] OTHER -> "normal"

calculateTaskPriority(tier) ==
  CASE tier = 4 -> "urgent"
    [] tier = 3 -> "high"
    [] tier = 2 -> "normal"
    [] tier = 1 -> "low"
    [] OTHER -> "normal"

\* A Date, as its local calendar day (counted from day 0) and time of day. The
\* setters may leave a field out of range, as in setHours(getHours() + 2);
\* getTime carries it over. The local time has a fixed offset from UTC.
Moments == [day : 0..MaxDay, hour : 0..23, minute : {0, 59}, second : {0, 30}]

\* Date.getTime, in seconds.
getTime(d) == ((d.day * 24 + d.hour) * 60 + d.minute) * 60 + d.second

\* now.setHours(h) and now.setHours(h, 0, 0, 0)
setHours(d, h) == [d EXCEPT !.hour = h]
setHoursSharp(d, h) == [d EXCEPT !.hour = h, !.minute = 0, !.second = 0]

\* now.setDate(now.getDate() + n)
addDays(d, n) == [d EXCEPT !.day = d.day + n]

\* Variant of calculateDueDate: tier 1 is due the next day, like tier 2.
calculateDueDate_nextDay(tier, now) ==
  getTime(CASE tier = 4 -> setHours(now, now.hour + 2)
            [] tier = 3 -> IF now.hour < 15
                           THEN setHoursSharp(now, 17)
                           ELSE setHoursSharp(addDays(now, 1), 17)
            [] tier = 2 -> setHoursSharp(addDays(now, 1), 17)
            [] tier = 1 -> setHoursSharp(addDays(now, 1), 17)
            [] OTHER -> now)

\* Variant of calculateDueDate: a tier 3 lead at 15:xx is still due the same day.
calculateDueDate_until3pm(tier, now) ==
  getTime(CASE tier = 4 -> setHours(now, now.hour + 2)
            [] tier = 3 -> IF now.hour <= 15
                           THEN setHoursSharp(now, 17)
                           ELSE setHoursSharp(addDays(now, 1), 17)
            [] tier = 2 -> setHoursSharp(addDays(now, 1), 17)
            [] tier = 1 -> setHoursSharp(addDays(now, 2), 17)
            [] OTHER -> now)

\* calculateDueDate(tier) with const now = new Date() as a parameter. The
\* switch has no default: an unlisted tier returns now.getTime().
calculateDueDate(tier, now) ==
  getTime(CASE tier = 4 -> setHours(now, now.hour + 2)
            [] tier = 3 -> IF now.hour < 15
                           THEN setHoursSharp(now, 17)
                           ELSE setHoursSharp(addDays(now, 1), 17)
            [] tier = 2 -> setHoursSharp(addDays(now, 1), 17)
            [] tier = 1 -> setHoursSharp(addDays(now, 2), 17)
            [] OTHER -> now)

\* Variant of generateTaskName: the phone is tried before the email.
generateTaskName_phoneFirst(l) ==
  LET name == IF Truthy(l, "firstName") /\ Truthy(l, "lastName")
              THEN l.firstName \o " " \o l.lastName
              ELSE IF Truthy(l, "phone") THEN l.phone
              ELSE IF Truthy(l, "email") THEN l.email
              ELSE IF Truthy(l, "socialHandle") THEN l.socialHandle
              ELSE "Unknown Lead"
  IN "Follow up with " \o name \o " (Tier " \o ToString(l.tier) \o ")"

generateTaskName(l) ==
  LET name == IF Truthy(l, "firstName") /\ Truthy(l, "lastName")
              THEN l.firstName \o " " \o l.lastName
              ELSE IF Truthy(l, "email") THEN l.email
              ELSE IF Truthy(l, "phone") THEN l.phone
              ELSE IF Truthy(l, "socialHandle") THEN l.socialHandle
              ELSE "Unknown Lead"
  IN "Follow up with " \o name \o " (Tier " \o ToString(l.tier) \o ")"

\* lead.emailsOpened || 0 on a lead whose counter may be missing or unset.
Count(l, f) == IF Has(l, f) THEN OrZero(l[f]) ELSE 0

\* new Date(iso).toLocaleDateString(), for the timestamps of the model, in the
\* en-US locale.
toLocaleDateString(iso) ==
  CASE iso = "2025-01-15T10:30:00.000Z" -> "1/15/2025"
    [] iso = "2025-12-01T08:00:00.000Z" -> "12/1/2025"
    [] OTHER -> "Invalid Date"

\* parts.push(text) under a condition; the section names the block of
\* generateTaskDescription that pushes it.
Part(cond, section, text) ==
  IF cond THEN << [section |-> section, text |-> text] >> ELSE << >>

\* Variant of descriptionParts: the source line is pushed before the condition.
descriptionParts_sourceFirst(l) ==
  Part(Truthy(l, "phone"), "phone", "[telephone] " \o l.phone)
  \o Part(Truthy(l, "email"), "email", "[e-mail] " \o l.email)
  \o Part(Truthy(l, "socialHandle"), "socialHandle", "[mobile] " \o l.socialHandle)
  \o Part(TRUE, "source", "\n[pin] Source: " \o l.source)
  \o Part(Truthy(l, "condition") \/ Truthy(l, "specificCondition"), "condition",
          "\n[hospital] Condition: "
            \o (IF Truthy(l, "specificCondition") THEN l.specificCondition ELSE l.condition))
  \o Part(Count(l, "emailsOpened") # 0 \/ Count(l, "emailsClicked") # 0, "engagement",
          "\n[chart] Engagement: " \o ToString(Count(l, "emailsOpened")) \o " opens, "
            \o ToString(Count(l, "emailsClicked")) \o " clicks")
  \o Part(Truthy(l, "lastEngagement"), "lastEngagement",
          "\n[clock] Last contact: " \o toLocaleDateString(l.lastEngagement))
  \o Part(Truthy(l, "notes"), "notes", "\n[memo] Notes: " \o l.notes)
  \o Part(Truthy(l, "ghlContactId"), "ghlContactId",
          "\n[link] [View in GHL](https://app.gohighlevel.com/contacts/"
            \o l.ghlContactId \o ")")

\* The parts array of generateTaskDescription. The pictograph that opens a
\* line is written as its name in brackets.
descriptionParts(l) ==
  Part(Truthy(l, "phone"), "phone", "[telephone] " \o l.phone)
  \o Part(Truthy(l, "email"), "email", "[e-mail] " \o l.email)
  \o Part(Truthy(l, "socialHandle"), "socialHandle", "[mobile] " \o l.socialHandle)
  \o Part(Truthy(l, "condition") \/ Truthy(l, "specificCondition"), "condition",
          "\n[hospital] Condition: "
            \o (IF Truthy(l, "specificCondition") THEN l.specificCondition ELSE l.condition))
  \o Part(TRUE, "source", "\n[pin] Source: " \o l.source)
  \o Part(Count(l, "emailsOpened") # 0 \/ Count(l, "emailsClicked") # 0, "engagement",
          "\n[chart] Engagement: " \o ToString(Count(l, "emailsOpened")) \o " opens, "
            \o ToString(Count(l, "emailsClicked")) \o " clicks")
  \o Part(Truthy(l, "lastEngagement"), "lastEngagement",
          "\n[clock] Last contact: " \o toLocaleDateString(l.lastEngagement))
  \o Part(Truthy(l, "notes"), "notes", "\n[memo] Notes: " \o l.notes)
  \o Part(Truthy(l, "ghlContactId"), "ghlContactId",
          "\n[link] [View in GHL](https://app.gohighlevel.com/contacts/"
            \o l.ghlContactId \o ")")

RECURSIVE join(_, _)
\* parts.join(separator)
join(parts, separator) ==
  IF parts = << >> THEN ""
  ELSE IF Len(parts) = 1 THEN parts[1].text
  ELSE parts[1].text \o separator \o join(Tail(parts), separator)

generateTaskDescription(l) == join(descriptionParts(l), "\n")

\* The optional fields of a lead that are set, under the names of a task's
\* custom fields.
custom(l, name, f) == IF Truthy(l, f) THEN [x \in {name} |-> l[f]] ELSE << >>

\* The object buildTaskFromLead returns when new Date() is now. The custom
\* fields and tags that are undefined are left out.
buildTaskFromLeadAt(l, listId, assignees, now) ==
  [listId |-> listId,
   name |-> generateTaskName(l),
   description |-> generateTaskDescription(l),
   priority |-> calculateTaskPriority(l.tier),
   status |-> "open",
   assignees |-> assignees,
   dueDate |-> calculateDueDate(l.tier, now),
   customFields |->
     [leadSource |-> l.source, leadTier |-> ToString(l.tier),
      leadTemperature |-> l.temperature]
       @@ custom(l, "phone", "phone") @@ custom(l, "email", "email")
       @@ (IF Truthy(l, "condition") THEN custom(l, "condition", "condition")
           ELSE custom(l, "condition", "specificCondition"))
       @@ custom(l, "lastContact", "lastEngagement"),
   tags |-> IF Has(l, "tags") THEN l.tags ELSE << >>]

\* What a run of the workflow keeps of that object: the fields that do not
\* depend on the lead's texts or on the clock.
buildTaskFromLead(l, listId, assignees) ==
  [listId |-> listId, priority |-> calculateTaskPriority(l.tier), status |-> "open",
   assignees |-> assignees, leadTier |-> l.tier]

\* ------------------------------------------------------- external services
\* What the task store answers to a create: response.data of the POST.
ClickUpTaskResponse ==
  {[id |-> "86a1", url |-> "https://app.clickup.com/t/86a1"],
   [id |-> "86a2", url |-> "https://app.clickup.com/t/86a2"]}

\* Messages of the errors the two clients rethrow.
StoreErrors == {"Request failed with status code 500", "Network Error"}
MessagingErrors == {"Slack API error: channel_not_found", "Request failed with status code 429"}

\* ------------------------------------------------------------ orchestrator
VARIABLES
  pc,           \* where the current run of processLeadToTask stands
  lead,         \* its argument
  taskData,     \* the task handed to clickup.createTask
  createdTask,  \* what createTask resolved with
  notifyArgs,   \* the arguments handed to slack.notifyTaskCreated
  result,       \* the LeadToTaskResult the run returned
  createCalls,  \* calls of clickup.createTask made by the current run
  notifyCalls,  \* calls of slack.notifyTaskCreated made by the current run
  steps,        \* the steps the current run has taken, in order
  rejection,    \* the external call that rejected in the current run, and its message
  runLog        \* (lead, result) of every run that returned to the present caller

None == [none |-> TRUE]
NoRejection == [call |-> "", message |-> ""]

NotReadyMessage == "Lead not yet at action stage"
NoListMessage(tier) == "No ClickUp list configured for tier " \o ToString(tier)

\* return { success: true, taskCreated: false, slackNotified: false, error }
NotReadyResult ==
  [success |-> TRUE, taskCreated |-> FALSE, slackNotified |-> FALSE, error |-> NotReadyMessage]

\* the return of the catch block
FailedResult(message) ==
  [success |-> FALSE, taskCreated |-> FALSE, slackNotified |-> FALSE, error |-> message]

\* Variant of CreatedResult: the url of the created task is left out.
CreatedResult_noUrl(task, slackNotified) ==
  [success |-> TRUE, taskCreated |-> TRUE, taskId |-> task.id, slackNotified |-> slackNotified]

\* the two returns that carry the created task
CreatedResult(task, slackNotified) ==
  [success |-> TRUE, taskCreated |-> TRUE, taskId |-> task.id, taskUrl |-> task.url,
   slackNotified |-> slackNotified]

\* Variant of Catch: the catch block rethrows instead of returning a result.
Catch_rethrow(message) == [pc |-> "threw", result |-> None]

\* catch (error) { ...; return {...} }: where an Error thrown inside the try ends.
Catch(message) == [pc |-> "returned", result |-> FailedResult(message)]

\* Variant of Submit: createTask is called a second time for the same task.
Submit_duplicate(l, listId, apiToken) ==
  LET clickup == getClickUpClient(apiToken) IN
  IF clickup.thrown
  THEN [pc |-> "returned", result |-> FailedResult(clickup.message), taskData |-> None,
        createCalls |-> 0,
        steps |-> << "getFrontDeskClickUpIds", "buildTaskFromLead", "getClickUpClient",
                     "catch" >>]
  ELSE [pc |-> "createTask", result |-> None,
        taskData |-> buildTaskFromLead(l, listId, getFrontDeskClickUpIds), createCalls |-> 2,
        steps |-> << "getFrontDeskClickUpIds", "buildTaskFromLead", "getClickUpClient",
                     "createTask", "createTask" >>]

\* Variant of Submit: the task is built before the assignees are resolved.
Submit_buildFirst(l, listId, apiToken) ==
  LET clickup == getClickUpClient(apiToken) IN
  IF clickup.thrown
  THEN [pc |-> "returned", result |-> FailedResult(clickup.message), taskData |-> None,
        createCalls |-> 0,
        steps |-> << "buildTaskFromLead", "getFrontDeskClickUpIds", "getClickUpClient",
                     "catch" >>]
  ELSE [pc |-> "createTask", result |-> None,
        taskData |-> buildTaskFromLead(l, listId, << >>), createCalls |-> 1,
        steps |-> << "buildTaskFromLead", "getFrontDeskClickUpIds", "getClickUpClient",
                     "createTask" >>]

\* Steps 3-5: the assignees, the task, the client and the call of createTask.
Submit(l, listId, apiToken) ==
  LET assignees == getFrontDeskClickUpIds
      task == buildTaskFromLead(l, listId, assignees)
      clickup == getClickUpClient(apiToken)
  IN
  IF clickup.thrown
  THEN [pc |-> Catch(clickup.message).pc, result |-> Catch(clickup.message).result,
        taskData |-> None, createCalls |-> 0,
        steps |-> << "getFrontDeskClickUpIds", "buildTaskFromLead", "getClickUpClient",
                     "catch" >>]
  ELSE [pc |-> "createTask", result |-> None, taskData |-> task, createCalls |-> 1,
        steps |-> << "getFrontDeskClickUpIds", "buildTaskFromLead", "getClickUpClient",
                     "createTask" >>]

\* Variant of Prepare: the check of the list id is left out.
Prepare_unchecked(l, apiToken) ==
  LET next == Submit(l, getListIdForTier(l.tier), apiToken) IN
  [next EXCEPT !.steps = << "getListIdForTier" >> \o @]

\* Step 2: the list of the lead's tier; none configured is thrown as an Error.
Prepare(l, apiToken) ==
  LET listId == getListIdForTier(l.tier)
      next == Submit(l, listId, apiToken)
  IN
  IF listId = ""
  THEN [pc |-> Catch(NoListMessage(l.tier)).pc, result |-> Catch(NoListMessage(l.tier)).result,
        taskData |-> None, createCalls |-> 0, steps |-> << "getListIdForTier", "catch" >>]
  ELSE [next EXCEPT !.steps = << "getListIdForTier" >> \o @]

\* Variant of Begin: the readiness gate is left out.
Begin_ungated(l, apiToken) ==
  LET next == Prepare(l, apiToken) IN
  [next EXCEPT !.steps = << "isActionReady" >> \o @]

\* Variant of Begin: a lead that already carries a clickupTaskId is skipped.
Begin_dedup(l, apiToken) ==
  LET next == Prepare(l, apiToken) IN
  IF ~isActionReady(l) \/ Has(l, "clickupTaskId")
  THEN [pc |-> "returned", result |-> NotReadyResult, taskData |-> None, createCalls |-> 0,
        steps |-> << "isActionReady" >>]
  ELSE [next EXCEPT !.steps = << "isActionReady" >> \o @]

\* Step 1 and on: from the call to the first await (of createTask) or to a return.
Begin(l, apiToken) ==
  LET next == Prepare(l, apiToken) IN
  IF ~isActionReady(l)
  THEN [pc |-> "returned", result |-> NotReadyResult, taskData |-> None, createCalls |-> 0,
        steps |-> << "isActionReady" >>]
  ELSE [next EXCEPT !.steps = << "isActionReady" >> \o @]

\* Steps 7-8: the mentions, the client and the call of notifyTaskCreated.
Notify(l, task, channelId, botToken) ==
  LET slackUserIds == getFrontDeskSlackIds
      slack == getSlackClient(botToken)
  IN
  IF slack.thrown
  THEN [pc |-> Catch(slack.message).pc, result |-> Catch(slack.message).result,
        notifyArgs |-> None, notifyCalls |-> 0,
        steps |-> << "getFrontDeskSlackIds", "getSlackClient", "catch" >>]
  ELSE [pc |-> "notifyTaskCreated", result |-> None,
        notifyArgs |-> [lead |-> l, task |-> task, userIds |-> slackUserIds,
                        channelId |-> channelId],
        notifyCalls |-> 1,
        steps |-> << "getFrontDeskSlackIds", "getSlackClient", "notifyTaskCreated" >>]

\* Variant of AfterCreate: the notification is sent whatever the channel id.
AfterCreate_always(l, task, botToken) ==
  LET next == Notify(l, task, getFrontDeskChannelId, botToken) IN
  [next EXCEPT !.steps = << "getFrontDeskChannelId" >> \o @]

\* Step 6 and on: from createTask resolving to the await of notifyTaskCreated or
\* to the return that skips the notification.
AfterCreate(l, task, botToken) ==
  LET channelId == getFrontDeskChannelId
      next == Notify(l, task, channelId, botToken)
  IN
  IF channelId = ""
  THEN [pc |-> "returned", result |-> CreatedResult(task, FALSE), notifyArgs |-> None,
        notifyCalls |-> 0, steps |-> << "getFrontDeskChannelId" >>]
  ELSE [next EXCEPT !.steps = << "getFrontDeskChannelId" >> \o @]

\* Variant of CreateRejected: the rejected createTask is called again.
CreateRejected_retry(message, calls) ==
  [pc |-> "createTask", result |-> None, createCalls |-> calls + 1]

\* createTask rejected: the await throws inside the try.
CreateRejected(message, calls) ==
  [pc |-> Catch(message).pc, result |-> Catch(message).result, createCalls |-> calls]

\* Variant of Notified: the final return leaves slackNotified false.
Notified_unflagged(task) == [pc |-> "returned", result |-> CreatedResult(task, FALSE)]

\* notifyTaskCreated resolved: step 9.
Notified(task) == [pc |-> "returned", result |-> CreatedResult(task, TRUE)]

\* Variant of NotifyRejected: the catch keeps the created task in the result.
NotifyRejected_partial(message) ==
  [pc |-> "returned",
   result |-> [success |-> FALSE, taskCreated |-> TRUE, slackNotified |-> FALSE,
               error |-> message]]

\* notifyTaskCreated rejected: the await throws inside the try.
NotifyRejected(message) == Catch(message)

\* The log of returned runs, once the run at pc has ended.
Logged(log, l, p, r) == IF p = "returned" THEN Append(log, [lead |-> l, result |-> r]) ELSE log

\* processLeadToTask(l) is called: it runs to its first await or to its return.
StartRun(l, apiToken, log) ==
  LET b == Begin(l, apiToken) IN
  /\ lead' = l
  /\ pc' = b.pc
  /\ result' = b.result
  /\ taskData' = b.taskData
  /\ createCalls' = b.createCalls
  /\ steps' = b.steps
  /\ createdTask' = None
  /\ notifyArgs' = None
  /\ notifyCalls' = 0
  /\ rejection' = NoRejection
  /\ runLog' = Logged(log, l, b.pc, b.result)

configVars == << CLICKUP_STRUCTURE, FRONT_DESK_TEAM >>

\* ------------------------------------------------------------ batch runner
VARIABLES
  leads,    \* the argument of processMultipleLeads
  bpc,      \* where processMultipleLeads stands
  index,    \* how many leads the for-of loop has taken
  results,  \* its results array
  delays,   \* delay(1000) calls it has made
  waited    \* milliseconds its delays have lasted, in all

batchVars == << leads, bpc, index, results, delays, waited >>

\* A direct call of one of the exported functions, outside any workflow run.
VARIABLES
  call,     \* the function called and its arguments
  ret       \* what the call returned

fnVars == << call, ret >>
runVars == << pc, lead, taskData, createdTask, notifyArgs, result, createCalls, notifyCalls,
              steps, rejection, runLog >>
vars == << CLICKUP_STRUCTURE, FRONT_DESK_TEAM, pc, lead, taskData, createdTask, notifyArgs,
           result, createCalls, notifyCalls, steps, rejection, runLog, leads, bpc, index,
           results, delays, waited, call, ret >>

\* A caller (the webhook handler, the test script) calls processLeadToTask.
Invoke ==
  /\ pc = "idle"
  /\ \E l \in Lead, apiToken \in EnvTokens : StartRun(l, apiToken, << >>)
  /\ UNCHANGED << fnVars, configVars, batchVars >>

\* await clickup.createTask(taskData) resolves with the created task.
CreateResolves ==
  /\ pc = "createTask"
  /\ \E task \in ClickUpTaskResponse, botToken \in EnvTokens :
       LET a == AfterCreate(lead, task, botToken) IN
       /\ createdTask' = task
       /\ pc' = a.pc
       /\ result' = a.result
       /\ notifyArgs' = a.notifyArgs
       /\ notifyCalls' = a.notifyCalls
       /\ steps' = steps \o a.steps
       /\ runLog' = Logged(runLog, lead, a.pc, a.result)
  /\ UNCHANGED << fnVars, configVars, batchVars, lead, taskData, createCalls, rejection >>

\* await clickup.createTask(taskData) rejects.
CreateRejects ==
  /\ pc = "createTask"
  /\ \E message \in StoreErrors :
       LET c == CreateRejected(message, createCalls) IN
       /\ pc' = c.pc
       /\ result' = c.result
       /\ createCalls' = c.createCalls
       /\ steps' = steps \o << "createTask rejected", "catch" >>
       /\ rejection' = [call |-> "createTask", message |-> message]
       /\ runLog' = Logged(runLog, lead, c.pc, c.result)
  /\ UNCHANGED << fnVars, configVars, batchVars, lead, taskData, createdTask, notifyArgs, notifyCalls >>

\* await slack.notifyTaskCreated(...) resolves.
NotifyResolves ==
  /\ pc = "notifyTaskCreated"
  /\ LET n == Notified(createdTask) IN
     /\ pc' = n.pc
     /\ result' = n.result
     /\ runLog' = Logged(runLog, lead, n.pc, n.result)
  /\ steps' = steps \o << "notifyTaskCreated resolved" >>
  /\ UNCHANGED << fnVars, configVars, batchVars, lead, taskData, createdTask, notifyArgs, createCalls,
                  notifyCalls, rejection >>

\* await slack.notifyTaskCreated(...) rejects.
NotifyRejects ==
  /\ pc = "notifyTaskCreated"
  /\ \E message \in MessagingErrors :
       LET c == NotifyRejected(message) IN
       /\ pc' = c.pc
       /\ result' = c.result
       /\ runLog' = Logged(runLog, lead, c.pc, c.result)
       /\ rejection' = [call |-> "notifyTaskCreated", message |-> message]
  /\ steps' = steps \o << "notifyTaskCreated rejected", "catch" >>
  /\ UNCHANGED << fnVars, configVars, batchVars, lead, taskData, createdTask, notifyArgs, createCalls,
                  notifyCalls >>

RunInit ==
  /\ pc = "idle"
  /\ lead = None
  /\ taskData = None
  /\ createdTask = None
  /\ notifyArgs = None
  /\ result = None
  /\ createCalls = 0
  /\ notifyCalls = 0
  /\ steps = << >>
  /\ rejection = NoRejection
  /\ runLog = << >>

Init ==
  /\ CLICKUP_STRUCTURE \in ClickUpStructure
  /\ FRONT_DESK_TEAM \in FrontDeskTeams
  /\ RunInit
  /\ leads = << >>
  /\ bpc = "idle"
  /\ index = 0
  /\ results = << >>
  /\ delays = 0
  /\ waited = 0
  /\ call = None
  /\ ret = None

Next == Invoke \/ CreateResolves \/ CreateRejects \/ NotifyResolves \/ NotifyRejects

\* One run of processLeadToTask, for every lead under every configuration.
Spec == Init /\ [][Next]_vars

\* ---------------------------------------------------- processMultipleLeads
\* The leads of the repository's workflow test: a ready tier 4 lead, a ready
\* tier 3 lead and a tier 2 lead that is not ready. createdAt and updatedAt,
\* which nothing reads, are left out.
testLeads ==
  << [id |-> "test-tier4-001", tier |-> 4, firstName |-> "Sarah", lastName |-> "Johnson",
      email |-> "sarah.johnson@example.com", phone |-> "+15551234567",
      source |-> "website-form", temperature |-> "hot", stage |-> "action-ready",
      condition |-> "Severe back pain - can barely walk",
      emailsOpened |-> 5, emailsClicked |-> 3],
     [id |-> "test-tier3-002", tier |-> 3, firstName |-> "Michael", lastName |-> "Rodriguez",
      email |-> "michael.r@example.com", phone |-> "+15559876543",
      source |-> "referral", temperature |-> "warm", stage |-> "engaged",
      condition |-> "Neck pain and headaches",
      emailsOpened |-> 2, emailsClicked |-> 1],
     [id |-> "test-tier2-003", tier |-> 2, firstName |-> "Jessica", lastName |-> "Chen",
      email |-> "jchen@example.com", phone |-> "+15554567890",
      source |-> "referral", temperature |-> "warm", stage |-> "engaged",
      condition |-> "General wellness check",
      emailsOpened |-> 1, emailsClicked |-> 0] >>

\* The batches: every sequence of at most MaxLeads of these leads, repeats included.
Batches ==
  UNION {[1..n -> {testLeads[i] : i \in 1..Len(testLeads)}] : n \in 0..MaxLeads}

\* Variant of Push: the result of a failed run is not collected.
Push_dropFailed(rs, r) == IF r.success THEN Append(rs, r) ELSE rs

\* The loop body after `await processLeadToTask(lead)`: results.push(result), then
\* delay(1000) is started.
Push(rs, r) == Append(rs, r)

\* Variant of LoopStep: the loop is left as soon as a run has failed.
LoopStep_abortOnFailure(log) ==
  IF index < Len(leads) /\ (index = 0 \/ results[Len(results)].success)
  THEN /\ index' = index + 1
       /\ bpc' = "processLeadToTask"
       /\ \E apiToken \in EnvTokens : StartRun(leads[index + 1], apiToken, log)
  ELSE /\ bpc' = "done"
       /\ UNCHANGED << index, runVars >>

\* The for-of loop takes its next lead, or the function returns results.
LoopStep(log) ==
  IF index < Len(leads)
  THEN /\ index' = index + 1
       /\ bpc' = "processLeadToTask"
       /\ \E apiToken \in EnvTokens : StartRun(leads[index + 1], apiToken, log)
  ELSE /\ bpc' = "done"
       /\ UNCHANGED << index, runVars >>

\* processMultipleLeads(leads) is called: results = [], then the loop is entered.
ProcessMultipleLeads ==
  /\ bpc = "idle"
  /\ results' = << >>
  /\ LoopStep(<< >>)
  /\ UNCHANGED << fnVars, configVars, leads, delays, waited >>

\* Variant of DelayAfter: the delay is awaited between two leads only.
DelayAfter_between(i, n) == i < n

\* Whether the loop body awaits the delay after the i-th of n leads: the await
\* is the last statement of the body, under no condition.
DelayAfter(i, n) == TRUE

\* The awaited run has returned: its result is pushed and the delay is started.
\* (A run that threw would reject processMultipleLeads.)
RunReturns ==
  /\ bpc = "processLeadToTask"
  /\ pc \in {"returned", "threw"}
  /\ IF pc = "returned"
     THEN /\ results' = Push(results, result)
          /\ IF DelayAfter(index, Len(leads))
             THEN /\ delays' = delays + 1
                  /\ bpc' = "delay"
                  /\ UNCHANGED << runVars, index >>
             ELSE /\ delays' = delays
                  /\ LoopStep(runLog)
     ELSE /\ bpc' = "threw"
          /\ UNCHANGED << results, delays, runVars, index >>
  /\ UNCHANGED << fnVars, configVars, leads, waited >>

\* await delay(1000): the inter-item delay of the loop.
DelayMs == 1000

\* Variant of delay: resolve is called at once instead of being handed to setTimeout.
delay_immediate(ms) == 0

\* new Promise((resolve) => setTimeout(resolve, ms)): the time until it resolves.
delay(ms) == ms

\* The timer of delay(1000) fires.
DelayElapses ==
  /\ bpc = "delay"
  /\ waited' = waited + delay(DelayMs)
  /\ LoopStep(runLog)
  /\ UNCHANGED << fnVars, configVars, leads, results, delays >>

InitBatch ==
  /\ CLICKUP_STRUCTURE \in ClickUpStructure
  /\ FRONT_DESK_TEAM = FrontDeskTeam(FALSE, FALSE)
  /\ RunInit
  /\ leads \in Batches
  /\ bpc = "idle"
  /\ index = 0
  /\ results = << >>
  /\ delays = 0
  /\ waited = 0
  /\ call = None
  /\ ret = None

NextBatch ==
  \/ ProcessMultipleLeads
  \/ CreateResolves
  \/ CreateRejects
  \/ NotifyResolves
  \/ NotifyRejects
  \/ RunReturns
  \/ DelayElapses

\* One call of processMultipleLeads, for every batch under every ClickUp structure,
\* with the team as the source has it (no ids filled in).
SpecBatch == InitBatch /\ [][NextBatch]_vars

\* The structures in which every list but that of tier 3 is configured, with
\* and without the channel.
InitBatchFair ==
  /\ CLICKUP_STRUCTURE \in {c \in ClickUpStructure :
                              /\ c.lists.tier4Urgent # ""
                              /\ c.lists.tier3High = ""
                              /\ c.lists.tier2Normal # ""
                              /\ c.lists.tier1Low # ""}
  /\ FRONT_DESK_TEAM = FrontDeskTeam(FALSE, FALSE)
  /\ RunInit
  /\ leads \in Batches
  /\ bpc = "idle"
  /\ index = 0
  /\ results = << >>
  /\ delays = 0
  /\ waited = 0
  /\ call = None
  /\ ret = None

\* processMultipleLeads when every createTask and notifyTaskCreated it awaits
\* settles, every timer fires and every continuation is run.
SpecBatchFair ==
  /\ InitBatchFair
  /\ [][NextBatch]_vars
  /\ WF_vars(CreateResolves \/ CreateRejects)
  /\ WF_vars(NotifyResolves \/ NotifyRejects)
  /\ WF_vars(RunReturns)
  /\ WF_vars(DelayElapses)

\* ------------------------------------------------------- lead classification
\* calculateLeadTier is called on a partial lead.
CalculateLeadTier ==
  /\ call = None
  /\ \E l \in PartialLead :
       /\ call' = [fn |-> "calculateLeadTier", lead |-> l]
       /\ ret' = calculateLeadTier(l)
  /\ UNCHANGED << configVars, runVars, batchVars >>

\* The leads isActionReady is called on: the counters may also be unset.
GateLead == [tier : TierValues, stage : LeadStage,
             emailsOpened : {Absent} \cup 0..MaxOpened,
             emailsClicked : {Absent} \cup 0..MaxClicked]

\* isActionReady is called on a lead.
IsActionReady ==
  /\ call = None
  /\ \E l \in GateLead :
       /\ call' = [fn |-> "isActionReady", lead |-> l]
       /\ ret' = isActionReady(l)
  /\ UNCHANGED << configVars, runVars, batchVars >>

\* ------------------------------------------------------------ lead sources
\* A field of an object under another name, when the object has it.
field(o, name, f) == IF Has(o, f) THEN [x \in {name} |-> o[f]] ELSE << >>

\* String.toLowerCase, on the tags of the model.
toLowerCase(t) ==
  CASE t = "Engaged" -> "engaged"
    [] t = "Action Ready" -> "action ready"
    [] t = "VIP" -> "vip"
    [] OTHER -> t

determineLeadStage(tags) ==
  LET tagSet == {toLowerCase(tags[i]) : i \in 1..Len(tags)} IN
  IF "converted" \in tagSet \/ "patient" \in tagSet THEN "converted"
  ELSE IF "scheduled" \in tagSet THEN "scheduled"
  ELSE IF "action-ready" \in tagSet \/ "action ready" \in tagSet THEN "action-ready"
  ELSE IF "engaged" \in tagSet THEN "engaged"
  ELSE IF "contacted" \in tagSet THEN "contacted"
  ELSE IF "lost" \in tagSet \/ "not interested" \in tagSet THEN "lost"
  ELSE "new"

determineLeadTemperature(emailsOpened, emailsClicked, smsReplied) ==
  IF emailsClicked >= 2 \/ smsReplied THEN "hot"
  ELSE IF emailsOpened >= 2 \/ emailsClicked >= 1 THEN "warm"
  ELSE "cold"

\* parseLeadSource, on the source strings of the model: lower case, white
\* space to hyphens, then the first keyword the string includes.
parseLeadSource(sourceString) ==
  CASE sourceString = "Facebook Ad" -> "facebook-ad"
    [] sourceString = "Walk In" -> "walk-in"
    [] OTHER -> "manual-entry"

transformGHLContactToLead(payload) ==
  LET contact == payload.contact
      customFields == IF Has(contact, "customFields") THEN contact.customFields ELSE << >>
      partialLead ==
        field(contact, "firstName", "firstName") @@ field(contact, "lastName", "lastName")
        @@ field(contact, "email", "email") @@ field(contact, "phone", "phone")
        @@ field(customFields, "socialHandle", "socialHandle")
        @@ field(customFields, "condition", "condition")
        @@ field(customFields, "specificCondition", "specific_condition")
        @@ field(customFields, "isPregnant", "is_pregnant")
        @@ field(customFields, "birthDate", "birth_date")
      tier == calculateLeadTier(partialLead)
      stage == determineLeadStage(IF Has(contact, "tags") THEN contact.tags ELSE << >>)
      temperature ==
        determineLeadTemperature(Count(customFields, "emails_opened"),
                                 Count(customFields, "emails_clicked"),
                                 Has(customFields, "sms_replied") /\ customFields.sms_replied)
      source == parseLeadSource(IF Has(customFields, "lead_source")
                                THEN customFields.lead_source ELSE "")
  IN [id |-> contact.id, ghlContactId |-> contact.id, tier |-> tier, source |-> source,
      temperature |-> temperature, stage |-> stage,
      emailsOpened |-> IF Has(customFields, "emails_opened")
                       THEN customFields.emails_opened ELSE Absent,
      emailsClicked |-> IF Has(customFields, "emails_clicked")
                        THEN customFields.emails_clicked ELSE Absent,
      createdAt |-> payload.timestamp, updatedAt |-> payload.timestamp]
     @@ partialLead
     @@ field(customFields, "smsReplied", "sms_replied")
     @@ field(customFields, "lastEngagement", "last_engagement")
     @@ field(contact, "tags", "tags")

\* The lead of the test-workflow endpoint, whose id ends in Date.now().
testLead(stamp) ==
  [id |-> "test-vercel-" \o ToString(stamp), tier |-> 4, firstName |-> "Vercel",
   lastName |-> "TestPatient", email |-> "vercel.test@example.com",
   phone |-> "+15551234567", source |-> "website-form", temperature |-> "hot",
   stage |-> "action-ready", condition |-> "Test deployment - Severe back pain",
   emailsOpened |-> 5, emailsClicked |-> 3]

\* The webhook payloads: a contact with any of its optional fields, with or
\* without custom fields, which in turn hold any of theirs.
CustomFieldsData ==
  [condition : {"Back pain"}, specific_condition : {"Sciatica"}, is_pregnant : BOOLEAN,
   birth_date : {"1990-05-15"}, lead_source : {"Facebook Ad"},
   emails_opened : {0, 2}, emails_clicked : {0, 2}]
CustomFields ==
  {[f \in D |-> d[f]] :
     d \in CustomFieldsData,
     D \in SUBSET {"condition", "specific_condition", "is_pregnant", "birth_date",
                   "lead_source", "emails_opened", "emails_clicked"}}
ContactData ==
  [id : {"ghl-123"}, firstName : {"Sarah"}, lastName : {"Johnson"},
   email : {"sarah@example.com"}, phone : {"+15551234567"},
   tags : {<< "Engaged" >>, << "Action Ready", "VIP" >>}]
Contacts ==
  {[f \in D \cup {"id"} |-> d[f]] :
     d \in ContactData, D \in SUBSET {"firstName", "lastName", "email", "phone", "tags"}}
GHLLeadWebhook ==
  {[type |-> "ContactTagUpdate", contactId |-> c.id, contact |-> c,
    timestamp |-> "2025-01-15T10:30:00.000Z"] :
     c \in Contacts \cup {c @@ [customFields |-> cf] : c \in Contacts, cf \in CustomFields}}

\* The webhook handler transforms the payload and hands the lead to
\* processLeadToTask.
GHLLeadAction ==
  /\ call = None
  /\ \E payload \in GHLLeadWebhook :
       call' = [fn |-> "processLeadToTask", from |-> "ghl-lead-action",
                lead |-> transformGHLContactToLead(payload)]
  /\ UNCHANGED << ret, configVars, runVars, batchVars >>

\* The test-workflow endpoint hands its lead to processLeadToTask.
TestWorkflow ==
  /\ call = None
  /\ \E stamp \in 0..MaxDay :
       call' = [fn |-> "processLeadToTask", from |-> "test-workflow",
                lead |-> testLead(stamp)]
  /\ UNCHANGED << ret, configVars, runVars, batchVars >>

\* The test script hands each of its leads to processLeadToTask.
TestLeadWorkflow ==
  /\ call = None
  /\ \E i \in 1..Len(testLeads) :
       call' = [fn |-> "processLeadToTask", from |-> "test-lead-workflow",
                lead |-> testLeads[i]]
  /\ UNCHANGED << ret, configVars, runVars, batchVars >>

\* The structure when none of the environment variables is set.
UnsetStructure ==
  [lists |-> [tier4Urgent |-> "", tier3High |-> "", tier2Normal |-> "", tier1Low |-> ""],
   channels |-> [frontDesk |-> ""]]

InitLead ==
  /\ CLICKUP_STRUCTURE = UnsetStructure
  /\ FRONT_DESK_TEAM = FrontDeskTeam(FALSE, FALSE)
  /\ RunInit
  /\ leads = << >>
  /\ bpc = "idle"
  /\ index = 0
  /\ results = << >>
  /\ delays = 0
  /\ waited = 0
  /\ call = None
  /\ ret = None

NextLead ==
  \/ CalculateLeadTier
  \/ IsActionReady
  \/ GHLLeadAction
  \/ TestWorkflow
  \/ TestLeadWorkflow

\* The functions of the lead type, each called once on every input, and the
\* places where a lead is made and handed to the workflow.
SpecLead == InitLead /\ [][NextLead]_vars

\* ------------------------------------------------------------ task builder
\* calculateTaskPriority is called on a tier.
CalculateTaskPriority ==
  /\ call = None
  /\ \E tier \in TierValues :
       /\ call' = [fn |-> "calculateTaskPriority", tier |-> tier]
       /\ ret' = calculateTaskPriority(tier)
  /\ UNCHANGED << configVars, runVars, batchVars >>

\* calculateDueDate is called on a tier at some moment.
CalculateDueDate ==
  /\ call = None
  /\ \E tier \in TierValues, now \in Moments :
       /\ call' = [fn |-> "calculateDueDate", tier |-> tier, now |-> now]
       /\ ret' = calculateDueDate(tier, now)
  /\ UNCHANGED << configVars, runVars, batchVars >>

\* The leads generateTaskName is called on: a tier, and any of the fields it
\* reads, each unset, empty or set.
NameData ==
  [tier : TierValues, firstName : {"", "Sarah"}, lastName : {"", "Johnson"},
   email : {"", "sarah@example.com"}, phone : {"", "+15551234567"},
   socialHandle : {"", "@sarah"}]
NameLead ==
  {[f \in D \cup {"tier"} |-> d[f]] :
     d \in NameData, D \in SUBSET {"firstName", "lastName", "email", "phone", "socialHandle"}}

\* generateTaskName is called on a lead.
GenerateTaskName ==
  /\ call = None
  /\ \E l \in NameLead :
       /\ call' = [fn |-> "generateTaskName", lead |-> l]
       /\ ret' = generateTaskName(l)
  /\ UNCHANGED << configVars, runVars, batchVars >>

\* The leads generateTaskDescription is called on: the source and the counters
\* (set or not), and any of the optional fields it reads.
DescriptionData ==
  [source : {"website-form"}, emailsOpened : {Absent, 0, 2}, emailsClicked : {Absent, 0, 1},
   phone : {"", "+15551234567"}, email : {"sarah@example.com"}, socialHandle : {"@sarah"},
   condition : {"Back pain"}, specificCondition : {"Sciatica"},
   lastEngagement : {"2025-01-15T10:30:00.000Z"}, notes : {"", "Prefers mornings"},
   ghlContactId : {"ghl-123"}]
DescriptionLead ==
  {[f \in D \cup {"source", "emailsOpened", "emailsClicked"} |-> d[f]] :
     d \in DescriptionData,
     D \in SUBSET {"phone", "email", "socialHandle", "condition", "specificCondition",
                   "lastEngagement", "notes", "ghlContactId"}}

\* generateTaskDescription is called on a lead.
GenerateTaskDescription ==
  /\ call = None
  /\ \E l \in DescriptionLead :
       /\ call' = [fn |-> "generateTaskDescription", lead |-> l]
       /\ ret' = generateTaskDescription(l)
  /\ UNCHANGED << configVars, runVars, batchVars >>

\* The leads buildTaskFromLead is called on: those of the workflow test, at
\* every tier.
BuildLead == {[testLeads[i] EXCEPT !.tier = t] : i \in 1..Len(testLeads), t \in TierValues}

\* buildTaskFromLead is called at some moment.
BuildTaskFromLead ==
  /\ call = None
  /\ \E l \in BuildLead, now \in Moments :
       /\ call' = [fn |-> "buildTaskFromLead", lead |-> l, now |-> now]
       /\ ret' = buildTaskFromLeadAt(l, getListIdForTier(l.tier), << >>, now)
  /\ UNCHANGED << configVars, runVars, batchVars >>

NextTask ==
  \/ BuildTaskFromLead
  \/ CalculateTaskPriority
  \/ CalculateDueDate
  \/ GenerateTaskName
  \/ GenerateTaskDescription

\* The functions of the task builder, each called once on every input. The
\* initial state is that of the lead functions: nothing has been called.
SpecTask == InitLead /\ [][NextTask]_vars

\* ---------------------------------------------------- the gate, repeatedly
\* Variant of CallGate: the gate remembers that it has fired and answers true
\* only once.
CallGate_once(l, earlier) ==
  [answer |-> isActionReady(l) /\ \A i \in 1..Len(earlier) : ~earlier[i].answer, lead |-> l]

\* A call isActionReady(l) made after some earlier calls: what it returns and
\* the lead object as the call leaves it. The function reads its argument only
\* and assigns nothing.
CallGate(l, earlier) == [answer |-> isActionReady(l), lead |-> l]

\* The leads the gate is called on again and again.
GateSubject ==
  {l \in GateLead : l.stage \in {"new", "action-ready"} /\ l.emailsOpened \in {Absent, MaxOpened}}

\* Some caller calls the gate on a lead for the first time.
GateFirst ==
  /\ call = None
  /\ \E l \in GateSubject :
       LET g == CallGate(l, << >>) IN
       /\ call' = [fn |-> "isActionReady, repeatedly", given |-> l, lead |-> g.lead]
       /\ ret' = << [lead |-> l, answer |-> g.answer] >>
  /\ UNCHANGED << configVars, runVars, batchVars >>

\* The gate is called again, on that lead or on another one.
GateAgain ==
  /\ call # None
  /\ Len(ret) < MaxCalls
  /\ \E l \in {call.lead, testLeads[1], testLeads[3]} :
       LET g == CallGate(l, ret) IN
       /\ call' = IF l = call.lead THEN [call EXCEPT !.lead = g.lead] ELSE call
       /\ ret' = Append(ret, [lead |-> l, answer |-> g.answer])
  /\ UNCHANGED << configVars, runVars, batchVars >>

\* processLeadToTask is called on that lead, between two calls of the gate.
RunOnSubject ==
  /\ call # None
  /\ pc = "idle"
  /\ \E apiToken \in EnvTokens : StartRun(call.lead, apiToken, << >>)
  /\ UNCHANGED << fnVars, configVars, batchVars >>

\* Every list is configured; the channel is or is not.
InitGate ==
  /\ CLICKUP_STRUCTURE \in {c \in ClickUpStructure :
                              \A t \in 1..4 : << c.lists.tier1Low, c.lists.tier2Normal,
                                                  c.lists.tier3High, c.lists.tier4Urgent >>[t] # ""}
  /\ FRONT_DESK_TEAM = FrontDeskTeam(FALSE, FALSE)
  /\ RunInit
  /\ leads = << >>
  /\ bpc = "idle"
  /\ index = 0
  /\ results = << >>
  /\ delays = 0
  /\ waited = 0
  /\ call = None
  /\ ret = None

NextGate ==
  \/ GateFirst
  \/ GateAgain
  \/ RunOnSubject
  \/ CreateResolves
  \/ CreateRejects
  \/ NotifyResolves
  \/ NotifyRejects

\* Calls of the gate on one lead, interleaved with calls on other leads and
\* with a run of the workflow on the same lead.
SpecGate == InitGate /\ [][NextGate]_vars

\* ------------------------------------------------------------- run again
\* The leads a caller runs more than once: those of the workflow test, and the
\* first of them with the id of a task already written into it.
RerunLead ==
  {testLeads[i] : i \in 1..Len(testLeads)} \cup {[clickupTaskId |-> "86a1"] @@ testLeads[1]}

\* A caller calls processLeadToTask on a lead for the first time.
RunFirst ==
  /\ pc = "idle"
  /\ \E l \in RerunLead, apiToken \in EnvTokens : StartRun(l, apiToken, << >>)
  /\ UNCHANGED << fnVars, configVars, batchVars >>

\* The run has returned and the caller calls processLeadToTask again on the
\* same lead, as it is or with the id of the task just created written into it.
RunAgain ==
  /\ pc = "returned"
  /\ Len(runLog) < MaxRuns
  /\ \E apiToken \in EnvTokens,
        l \in {lead} \cup (IF result.taskCreated
                           THEN {[clickupTaskId |-> result.taskId] @@ lead} ELSE {}) :
       StartRun(l, apiToken, runLog)
  /\ UNCHANGED << fnVars, configVars, batchVars >>

NextRerun ==
  \/ RunFirst
  \/ RunAgain
  \/ CreateResolves
  \/ CreateRejects
  \/ NotifyResolves
  \/ NotifyRejects

\* Runs of processLeadToTask one after the other on the same lead, under every
\* configuration.
SpecRerun == Init /\ [][NextRerun]_vars

\* --------------------------------------------------------- webhook handler
\* The request bodies: payloads whose contact is complete and whose custom
\* fields hold the condition and both counters, and a body with no contact.
WebhookBodies ==
  {p \in GHLLeadWebhook :
     /\ DOMAIN p.contact = {"id", "firstName", "lastName", "email", "phone", "tags",
                            "customFields"}
     /\ {"condition", "emails_opened", "emails_clicked"} \subseteq DOMAIN p.contact.customFields
     /\ DOMAIN p.contact.customFields \cap {"birth_date", "lead_source"} = {}}
  \cup {[type |-> "ContactTagUpdate", timestamp |-> "2025-01-15T10:30:00.000Z"]}

\* Variant of Respond: a failed run is answered like a lead that is not ready.
Respond_always200(r) ==
  IF r.success /\ r.taskCreated
  THEN [status |-> 200,
        body |-> [success |-> TRUE, message |-> "Lead processed and task created",
                  taskId |-> r.taskId, taskUrl |-> r.taskUrl,
                  slackNotified |-> r.slackNotified]]
  ELSE [status |-> 200,
        body |-> [success |-> TRUE,
                  message |-> "Lead received but not ready for task creation",
                  reason |-> r.error]]

\* The three answers of the handler to the result of processLeadToTask.
Respond(r) ==
  IF r.success /\ r.taskCreated
  THEN [status |-> 200,
        body |-> [success |-> TRUE, message |-> "Lead processed and task created",
                  taskId |-> r.taskId, taskUrl |-> r.taskUrl,
                  slackNotified |-> r.slackNotified]]
  ELSE IF r.success /\ ~r.taskCreated
  THEN [status |-> 200,
        body |-> [success |-> TRUE,
                  message |-> "Lead received but not ready for task creation",
                  reason |-> r.error]]
  ELSE [status |-> 500, body |-> [success |-> FALSE, error |-> r.error]]

\* A request arrives: a method other than POST is refused, a body with no
\* contact throws into the handler's catch, and otherwise the lead is
\* transformed and processLeadToTask is called and awaited.
Request ==
  /\ call = None
  /\ pc = "idle"
  /\ \E method \in {"GET", "POST"}, body \in WebhookBodies, apiToken \in EnvTokens :
       /\ call' = [fn |-> "handler", method |-> method, body |-> body]
       /\ IF method # "POST"
          THEN /\ ret' = [status |-> 405, body |-> [error |-> "Method not allowed"]]
               /\ UNCHANGED runVars
          ELSE IF ~Has(body, "contact")
          THEN /\ ret' = [status |-> 500,
                          body |-> [success |-> FALSE,
                                    error |-> "Cannot read properties of undefined (reading 'firstName')"]]
               /\ UNCHANGED runVars
          ELSE /\ ret' = None
               /\ StartRun(transformGHLContactToLead(body), apiToken, << >>)
  /\ UNCHANGED << configVars, batchVars >>

\* The awaited run has returned and the handler answers.
Response ==
  /\ call # None /\ call.fn = "handler"
  /\ ret = None
  /\ pc = "returned"
  /\ ret' = Respond(result)
  /\ UNCHANGED << call, configVars, runVars, batchVars >>

InitWebhook ==
  /\ CLICKUP_STRUCTURE \in ClickUpStructure
  /\ FRONT_DESK_TEAM = FrontDeskTeam(FALSE, FALSE)
  /\ RunInit
  /\ leads = << >>
  /\ bpc = "idle"
  /\ index = 0
  /\ results = << >>
  /\ delays = 0
  /\ waited = 0
  /\ call = None
  /\ ret = None

NextWebhook ==
  \/ Request
  \/ CreateResolves
  \/ CreateRejects
  \/ NotifyResolves
  \/ NotifyRejects
  \/ Response

\* One request to the GHL lead-action webhook, under every ClickUp structure.
SpecWebhook == InitWebhook /\ [][NextWebhook]_vars

\* ------------------------------------------------------------------ claims
\* interface LeadToTaskResult
IsLeadToTaskResult(r) ==
  /\ {"success", "taskCreated", "slackNotified"} \subseteq DOMAIN r
  /\ DOMAIN r \subseteq {"success", "taskCreated", "taskId", "taskUrl", "slackNotified", "error"}
  /\ r.success \in BOOLEAN
  /\ r.taskCreated \in BOOLEAN
  /\ r.slackNotified \in BOOLEAN

Took(step) == \E i \in DOMAIN steps : steps[i] = step

\* C1: processLeadToTask never lets an exception reach its caller: whatever the
\* lead and whichever of the lookups, client constructions and external calls
\* fails, a run is at one of its awaits or has returned, and what it returned
\* is a LeadToTaskResult.
C1_AlwaysAnOutcome ==
  /\ pc \in {"idle", "createTask", "notifyTaskCreated", "returned"}
  /\ pc = "returned" => IsLeadToTaskResult(result)

\* A run in which the construction of the ClickUp client threw has returned a result.
C1_Witness ==
  /\ pc = "returned"
  /\ Took("getClickUpClient") /\ Took("catch")
  /\ result.error = ClickUpTokenMissing

\* C2: when notifyTaskCreated fails after createTask succeeded, the run returns
\* {success: false, taskCreated: false, slackNotified: false, error: <message>}
\* without taskId or taskUrl.
C2_NotifyFailureFailsRun ==
  rejection.call = "notifyTaskCreated" =>
    /\ pc = "returned"
    /\ createdTask # None
    /\ result = [success |-> FALSE, taskCreated |-> FALSE, slackNotified |-> FALSE,
                 error |-> rejection.message]

C2_Witness ==
  /\ pc = "returned"
  /\ rejection = [call |-> "notifyTaskCreated", message |-> "Slack API error: channel_not_found"]
  /\ createdTask \in ClickUpTaskResponse
  /\ ~result.taskCreated

\* C3: whenever createTask returned successfully, the result has success and
\* taskCreated true and carries the created task's id and url, whether the
\* notification was skipped, succeeded or failed.
C3_CreatedTaskAlwaysReported ==
  (pc = "returned" /\ createdTask # None) =>
    /\ result.success
    /\ result.taskCreated
    /\ result.taskId = createdTask.id
    /\ result.taskUrl = createdTask.url

\* C4: for a lead that isActionReady rejects, the run returns the successful
\* no-op {success: true, taskCreated: false, slackNotified: false, error: the
\* not-ready message} straight after the gate: no lookup, no createTask, no
\* notifyTaskCreated.
C4_NotReadyIsNoOp ==
  (pc # "idle" /\ ~isActionReady(lead)) =>
    /\ pc = "returned"
    /\ result = [success |-> TRUE, taskCreated |-> FALSE, slackNotified |-> FALSE,
                 error |-> "Lead not yet at action stage"]
    /\ steps = << "isActionReady" >>
    /\ createCalls = 0 /\ notifyCalls = 0
    /\ taskData = None /\ createdTask = None /\ notifyArgs = None

\* Scenario B: a tier 2 lead, engaged, 1 open, 0 clicks.
C4_Witness ==
  /\ pc = "returned"
  /\ lead = [tier |-> 2, stage |-> "engaged", emailsOpened |-> 1, emailsClicked |-> 0]
  /\ result.success /\ ~result.taskCreated

\* C5: when createTask fails, the run returns {success: false, taskCreated:
\* false, slackNotified: false, error: <message>}, createTask was called exactly
\* once (no retry) and notifyTaskCreated is never called.
C5_StoreFailure ==
  rejection.call = "createTask" =>
    /\ pc = "returned"
    /\ result = [success |-> FALSE, taskCreated |-> FALSE, slackNotified |-> FALSE,
                 error |-> rejection.message]
    /\ createCalls = 1
    /\ notifyCalls = 0 /\ notifyArgs = None

C5_Witness ==
  /\ pc = "returned"
  /\ rejection = [call |-> "createTask", message |-> "Network Error"]
  /\ isActionReady(lead)
  /\ ~result.success

\* C6: when no list is configured for a ready lead's tier, the run returns
\* {success: false, taskCreated: false, error: the no-list message naming the
\* lead's tier} and createTask is never called.
C6_NoListConfigured ==
  (pc # "idle" /\ isActionReady(lead) /\ getListIdForTier(lead.tier) = "") =>
    /\ pc = "returned"
    /\ result = [success |-> FALSE, taskCreated |-> FALSE, slackNotified |-> FALSE,
                 error |-> "No ClickUp list configured for tier " \o ToString(lead.tier)]
    /\ createCalls = 0 /\ taskData = None
    /\ ~Took("createTask")

\* The list of tier 3 is not configured while that of tier 4 is.
C6_Witness ==
  /\ pc = "returned"
  /\ lead.tier = 3
  /\ CLICKUP_STRUCTURE.lists.tier4Urgent # ""
  /\ result.error = "No ClickUp list configured for tier 3"

\* C7: when createTask succeeded and no channel is configured, the run returns
\* {success: true, taskCreated: true, taskId, taskUrl, slackNotified: false} with
\* the id and url createTask returned, and notifyTaskCreated is not called.
C7_NotifySkipped ==
  (createdTask # None /\ getFrontDeskChannelId = "") =>
    /\ pc = "returned"
    /\ result = [success |-> TRUE, taskCreated |-> TRUE, taskId |-> createdTask.id,
                 taskUrl |-> createdTask.url, slackNotified |-> FALSE]
    /\ notifyCalls = 0 /\ notifyArgs = None
    /\ ~Took("notifyTaskCreated")

C7_Witness ==
  /\ pc = "returned"
  /\ getFrontDeskChannelId = ""
  /\ createdTask = [id |-> "86a2", url |-> "https://app.clickup.com/t/86a2"]
  /\ result.taskId = "86a2"

\* C8: when createTask and notifyTaskCreated both succeed, the run returns
\* {success: true, taskCreated: true, taskId, taskUrl, slackNotified: true}, with
\* or without assignees and mentions; and a ready lead with a list and a channel
\* configured fails only by a client that cannot be constructed or by an
\* external call that fails, never by an empty assignee or mention list.
C8_Notified ==
  /\ Took("notifyTaskCreated resolved") =>
       /\ pc = "returned"
       /\ isActionReady(lead)
       /\ taskData.listId # "" /\ notifyArgs.channelId # ""
       /\ result = [success |-> TRUE, taskCreated |-> TRUE, taskId |-> createdTask.id,
                    taskUrl |-> createdTask.url, slackNotified |-> TRUE]
  /\ (/\ pc = "returned"
      /\ isActionReady(lead)
      /\ getListIdForTier(lead.tier) # ""
      /\ getFrontDeskChannelId # ""
      /\ ~result.success) =>
       result.error \in {ClickUpTokenMissing, SlackTokenMissing} \cup StoreErrors
                          \cup MessagingErrors

\* Notified with no assignee and no mention.
C8_Witness ==
  /\ pc = "returned"
  /\ result.slackNotified
  /\ taskData.assignees = << >>
  /\ notifyArgs.userIds = << >>

\* C9 as stated: at most one createTask and one notifyTaskCreated per run, and
\* exactly one createTask for a ready lead whose tier has a list configured.
C9_ExactlyOneCreateWhenReady ==
  /\ createCalls <= 1 /\ notifyCalls <= 1
  /\ (pc = "returned" /\ isActionReady(lead) /\ getListIdForTier(lead.tier) # "") =>
       createCalls = 1

\* C9 as amended: at most one createTask and one notifyTaskCreated per run; for
\* a ready lead whose tier has a list configured createTask is called exactly
\* once, unless the ClickUp client cannot be constructed (CLICKUP_API_TOKEN not
\* set), in which case it is not called and the run returns that failure.
C9_OneCreateUnlessNoClient ==
  /\ createCalls <= 1 /\ notifyCalls <= 1
  /\ (pc # "idle" /\ isActionReady(lead) /\ getListIdForTier(lead.tier) # "") =>
       \/ createCalls = 1
       \/ /\ createCalls = 0
          /\ pc = "returned"
          /\ result = [success |-> FALSE, taskCreated |-> FALSE, slackNotified |-> FALSE,
                       error |-> ClickUpTokenMissing]
  /\ (pc # "idle" /\ createCalls = 1) =>
       (isActionReady(lead) /\ getListIdForTier(lead.tier) # "")

\* A ready lead with its list configured for which createTask was not called.
C9_Witness ==
  /\ pc = "returned"
  /\ isActionReady(lead)
  /\ getListIdForTier(lead.tier) # ""
  /\ createCalls = 0

\* C10: processMultipleLeads runs processLeadToTask once per lead, in input
\* order, and returns as many results as leads, the i-th being what the run for
\* the i-th lead returned; a failed run neither stops the loop nor changes the
\* other results.
C10_OneResultPerLead ==
  /\ bpc \in {"idle", "processLeadToTask", "delay", "done"}
  /\ index <= Len(leads)
  /\ Len(runLog) \in {index - 1, index} \cap Nat
  /\ Len(results) \in {Len(runLog) - 1, Len(runLog)} \cap Nat
  /\ \A i \in 1..Len(runLog) : runLog[i].lead = leads[i]
  /\ \A i \in 1..Len(results) : results[i] = runLog[i].result
  /\ bpc = "done" =>
       /\ index = Len(leads)
       /\ Len(results) = Len(leads)

\* Three leads, the 2nd failing in the task store, the 1st and 3rd succeeding.
C10_Witness ==
  /\ bpc = "done"
  /\ Len(leads) = 3 /\ Len(results) = 3
  /\ results[1].success /\ results[1].taskCreated
  /\ ~results[2].success /\ results[2].error \in StoreErrors
  /\ results[3].success /\ results[3].taskCreated

\* C11: processMultipleLeads is strictly serial: a run (and its external calls)
\* is in progress only while the loop awaits it, and the run for lead i+1 is
\* started only once the i runs before it have returned, their results are
\* collected and i delays of one second each have elapsed.
C11_StrictlySerial ==
  /\ pc \in {"createTask", "notifyTaskCreated"} => bpc = "processLeadToTask"
  /\ bpc = "processLeadToTask" =>
       /\ index >= 1
       /\ Len(results) = index - 1
       /\ Len(runLog) \in {index - 1, index}
       /\ delays = index - 1
       /\ waited = 1000 * (index - 1)
  /\ bpc = "delay" =>
       /\ pc = "returned"
       /\ Len(results) = index /\ Len(runLog) = index
       /\ delays = index
       /\ waited = 1000 * (index - 1)

\* The 2nd run of a batch is awaiting createTask, after the 1st run created a task.
C11_Witness ==
  /\ bpc = "processLeadToTask"
  /\ index = 2
  /\ pc = "createTask"
  /\ Len(results) = 1 /\ results[1].taskCreated
  /\ waited = 1000

\* C12: calculateLeadTier is a top-down ladder: 4 when first name, last name,
\* phone, email and the specific condition are present and isPregnant is set
\* (even to false) or a birth date is present; else 3 when first name, last
\* name, phone, email and the general condition are present; else 2 when phone
\* and email are present; else 1.
C12_TierLadder ==
  (call # None /\ call.fn = "calculateLeadTier") =>
    LET l == call.lead
        present(f) == f \in DOMAIN l /\ l[f] # ""
        contact == present("phone") /\ present("email")
        named == present("firstName") /\ present("lastName")
        four == /\ named /\ contact /\ present("specificCondition")
                /\ ("isPregnant" \in DOMAIN l \/ present("birthDate"))
        three == named /\ contact /\ present("condition")
    IN /\ ret = 4 <=> four
       /\ ret = 3 <=> ~four /\ three
       /\ ret = 2 <=> ~four /\ ~three /\ contact
       /\ ret = 1 <=> ~four /\ ~three /\ ~contact
       /\ (DOMAIN l = {"socialHandle"}) => ret = 1

\* A lead with isPregnant set to false and no birth date, which also satisfies
\* the tier 3 predicate, is tier 4.
C12_Witness ==
  /\ call # None /\ call.fn = "calculateLeadTier"
  /\ "isPregnant" \in DOMAIN call.lead /\ ~call.lead.isPregnant
  /\ "birthDate" \notin DOMAIN call.lead
  /\ "condition" \in DOMAIN call.lead /\ call.lead.condition = "Back pain"
  /\ ret = 4

\* C13: isActionReady is true for tier 4 iff the stage is engaged or
\* action-ready; for tier 3 iff emails opened >= 2 and emails clicked >= 1; for
\* tier 2 iff emails opened >= 3 or emails clicked >= 1; for tier 1 iff the
\* stage is action-ready; for any other tier never. An unset counter counts as 0.
C13_ReadinessRule ==
  (call # None /\ call.fn = "isActionReady") =>
    LET l == call.lead
        opened == IF l.emailsOpened < 0 THEN 0 ELSE l.emailsOpened
        clicked == IF l.emailsClicked < 0 THEN 0 ELSE l.emailsClicked
    IN /\ l.tier = 4 => (ret <=> l.stage \in {"engaged", "action-ready"})
       /\ l.tier = 3 => (ret <=> (opened >= 2 /\ clicked >= 1))
       /\ l.tier = 2 => (ret <=> (opened >= 3 \/ clicked >= 1))
       /\ l.tier = 1 => (ret <=> l.stage = "action-ready")
       /\ l.tier \notin 1..4 => ~ret
       /\ (l.tier = 3 /\ l.emailsOpened = 1 /\ l.emailsClicked = 1) => ~ret
       /\ (l.tier = 2 /\ l.emailsOpened = 2 /\ l.emailsClicked = 0) => ~ret

\* A tier 3 lead with one click but its opens unset is not ready.
C13_Witness ==
  /\ call # None /\ call.fn = "isActionReady"
  /\ call.lead.tier = 3 /\ call.lead.stage = "action-ready"
  /\ call.lead.emailsOpened = Absent /\ call.lead.emailsClicked = 1
  /\ ret = FALSE

\* C14: calculateTaskPriority maps 4 to urgent, 3 to high, 2 to normal, 1 to
\* low and every other tier to normal; a higher tier never gets a less urgent
\* priority than a lower one.
C14_PriorityTable ==
  (call # None /\ call.fn = "calculateTaskPriority") =>
    LET table == [t \in 1..4 |-> << "low", "normal", "high", "urgent" >>[t]]
        urgency == [p \in {"low", "normal", "high", "urgent"} |->
                      CASE p = "low" -> 1 [] p = "normal" -> 2 [] p = "high" -> 3
                        [] p = "urgent" -> 4]
    IN /\ call.tier \in 1..4 => ret = table[call.tier]
       /\ call.tier \notin 1..4 => ret = "normal"
       /\ call.tier \in 1..4 =>
            \A lower \in 1..4 : lower < call.tier => urgency[table[lower]] <= urgency[ret]

\* Tier 3 is given high, above the normal of tier 2.
C14_Witness ==
  /\ call # None /\ call.fn = "calculateTaskPriority"
  /\ call.tier = 3 /\ ret = "high"

C17_TaskName ==
  (call # None /\ call.fn = "generateTaskName") =>
    LET l == call.lead
        value(f) == IF f \in DOMAIN l THEN l[f] ELSE ""
        fullName == IF value("firstName") # "" /\ value("lastName") # ""
                    THEN value("firstName") \o " " \o value("lastName") ELSE ""
        candidates == << fullName, value("email"), value("phone"), value("socialHandle"),
                         "Unknown Lead" >>
        first == CHOOSE i \in 1..5 :
                   candidates[i] # "" /\ \A j \in 1..(i - 1) : candidates[j] = ""
    IN ret = "Follow up with " \o candidates[first] \o " (Tier " \o ToString(l.tier) \o ")"

\* A lead with a first name only, a phone and an email is named by its email.
C17_Witness ==
  /\ call # None /\ call.fn = "generateTaskName"
  /\ call.lead = [tier |-> 2, firstName |-> "Sarah", phone |-> "+15551234567",
                  email |-> "sarah@example.com"]
  /\ ret = "Follow up with sarah@example.com (Tier 2)"

\* C18: the description is its sections joined by newlines, in the order phone,
\* email, social handle, condition (the detailed one when present, else the
\* general one), source, engagement summary, last-contact date, notes, CRM
\* link; a section is there iff its data is present (the engagement summary iff
\* emailsOpened or emailsClicked is nonzero).
C18_Description ==
  (call # None /\ call.fn = "generateTaskDescription") =>
    LET l == call.lead
        parts == descriptionParts(l)
        order == << "phone", "email", "socialHandle", "condition", "source", "engagement",
                    "lastEngagement", "notes", "ghlContactId" >>
        place(section) == CHOOSE i \in 1..9 : order[i] = section
        sections == {parts[i].section : i \in 1..Len(parts)}
        present(f) == f \in DOMAIN l /\ l[f] # ""
        nonzero(f) == f \in DOMAIN l /\ l[f] > 0
        text(section) == (CHOOSE i \in 1..Len(parts) : parts[i].section = section)
    IN /\ \A i, j \in 1..Len(parts) :
            i < j => place(parts[i].section) < place(parts[j].section)
       /\ \A f \in {"phone", "email", "socialHandle", "lastEngagement", "notes",
                    "ghlContactId"} : f \in sections <=> present(f)
       /\ "condition" \in sections <=> (present("condition") \/ present("specificCondition"))
       /\ "source" \in sections <=> present("source")
       /\ "engagement" \in sections <=> (nonzero("emailsOpened") \/ nonzero("emailsClicked"))
       /\ "condition" \in sections =>
            parts[text("condition")].text = "\n[hospital] Condition: "
              \o (IF present("specificCondition") THEN l.specificCondition ELSE l.condition)
       /\ ret = join(parts, "\n")

\* A lead with both conditions, clicks but no opens, and everything else set:
\* all nine sections, the detailed condition shown.
C18_Witness ==
  /\ call # None /\ call.fn = "generateTaskDescription"
  /\ DOMAIN call.lead = DOMAIN (CHOOSE d \in DescriptionData : TRUE)
  /\ call.lead.emailsOpened = Absent /\ call.lead.emailsClicked = 1
  /\ call.lead.phone # "" /\ call.lead.notes # ""
  /\ ret = "[telephone] +15551234567\n[e-mail] sarah@example.com\n[mobile] @sarah\n"
           \o "\n[hospital] Condition: Sciatica\n\n[pin] Source: website-form\n"
           \o "\n[chart] Engagement: 0 opens, 1 clicks\n\n[clock] Last contact: 1/15/2025\n"
           \o "\n[memo] Notes: Prefers mornings\n"
           \o "\n[link] [View in GHL](https://app.gohighlevel.com/contacts/ghl-123)"

\* C16: for a tier outside 1..4 the built task has no due date: its dueDate
\* field is absent.
C16_NoDueDateOutsideTiers ==
  (call # None /\ call.fn = "buildTaskFromLead" /\ call.lead.tier \notin 1..4) =>
    "dueDate" \notin DOMAIN ret

\* C19: every lead handed to processLeadToTask, by the webhook handler, the
\* test endpoint or the test script, has the tier calculateLeadTier gives for
\* its own fields.
C19_TierFromFields ==
  (call # None /\ call.fn = "processLeadToTask") =>
    call.lead.tier = calculateLeadTier(call.lead)

\* C20: the task handed to createTask is routed by tier: its listId is the
\* list configured for the lead's own tier (4: tier4Urgent, 3: tier3High,
\* 2: tier2Normal, 1: tier1Low), never the list of another tier.
C20_RoutedByTier ==
  (createCalls > 0 \/ taskData # None) =>
    LET lists == CLICKUP_STRUCTURE.lists
        own == << lists.tier1Low, lists.tier2Normal, lists.tier3High, lists.tier4Urgent >>
    IN /\ taskData # None
       /\ lead.tier \in 1..4
       /\ taskData.listId = own[lead.tier]
       /\ taskData.listId # ""
       /\ \A other \in 1..4 : other # lead.tier => taskData.listId # own[other]

\* A tier 3 lead's task goes to createTask with the tier 3 list, every other
\* list being configured too.
C20_Witness ==
  /\ pc = "createTask" /\ createCalls = 1
  /\ lead.tier = 3
  /\ CLICKUP_STRUCTURE.lists = [tier4Urgent |-> "list-4", tier3High |-> "list-3",
                                tier2Normal |-> "list-2", tier1Low |-> "list-1"]
  /\ taskData.listId = "list-3"

C22_StepOrder ==
  LET order == << "isActionReady", "getListIdForTier", "getFrontDeskClickUpIds",
                  "buildTaskFromLead", "createTask", "getFrontDeskChannelId",
                  "getFrontDeskSlackIds", "notifyTaskCreated" >>
      ordered(step) == \E k \in 1..Len(order) : order[k] = step
      taken == SelectSeq(steps, ordered)
      count(step) == Cardinality({i \in 1..Len(steps) : steps[i] = step})
  IN /\ taken = SubSeq(order, 1, Len(taken))
     /\ Took("notifyTaskCreated") =>
          /\ createdTask # None
          /\ CLICKUP_STRUCTURE.channels.frontDesk # ""
          /\ notifyArgs.channelId = CLICKUP_STRUCTURE.channels.frontDesk
          /\ notifyArgs.task = createdTask
     /\ createCalls = count("createTask") /\ notifyCalls = count("notifyTaskCreated")
     /\ result # None <=> pc = "returned"
     /\ pc = "returned" =>
          /\ steps[Len(steps)] \in {"isActionReady", "catch", "getFrontDeskChannelId",
                                    "notifyTaskCreated resolved"}
          /\ \A i \in 1..(Len(steps) - 1) :
               steps[i] \notin {"catch", "notifyTaskCreated resolved"}

\* A run that went through all eight steps and returned after the notification.
C22_Witness ==
  /\ pc = "returned"
  /\ result.slackNotified
  /\ steps = << "isActionReady", "getListIdForTier", "getFrontDeskClickUpIds",
                "buildTaskFromLead", "getClickUpClient", "createTask",
                "getFrontDeskChannelId", "getFrontDeskSlackIds", "getSlackClient",
                "notifyTaskCreated", "notifyTaskCreated resolved" >>

\* C23: every run of processLeadToTask on a ready lead, a first run or a run
\* on a lead that was run before (even one whose clickupTaskId is set), calls
\* createTask once.
C23_CreateOnceEachRun ==
  (pc # "idle" /\ isActionReady(lead)) => createCalls = 1

\* C23 as amended: every run on a ready lead whose tier has a list configured,
\* a first run or a later one (even on a lead whose clickupTaskId is set),
\* calls createTask once with a task built afresh, unless the ClickUp client
\* cannot be constructed; a run that fails before the create call makes none.
\* No run looks at what earlier runs did.
C23_FreshTaskEachRun ==
  (pc # "idle" /\ isActionReady(lead)) =>
    IF getListIdForTier(lead.tier) = ""
    THEN /\ createCalls = 0 /\ pc = "returned"
         /\ result = [success |-> FALSE, taskCreated |-> FALSE, slackNotified |-> FALSE,
                      error |-> "No ClickUp list configured for tier " \o ToString(lead.tier)]
    ELSE \/ /\ createCalls = 1
            /\ taskData.listId = getListIdForTier(lead.tier)
            /\ taskData.leadTier = lead.tier
            /\ taskData.status = "open"
         \/ /\ createCalls = 0 /\ pc = "returned"
            /\ result = [success |-> FALSE, taskCreated |-> FALSE, slackNotified |-> FALSE,
                         error |-> ClickUpTokenMissing]

\* The second run on a lead whose first run created a task, and into which the
\* id of that task was written, is at its own createTask call.
C23_Witness ==
  /\ Len(runLog) = 1 /\ runLog[1].result.taskCreated
  /\ runLog[1].lead.id = lead.id
  /\ "clickupTaskId" \in DOMAIN lead /\ lead.clickupTaskId = runLog[1].result.taskId
  /\ pc = "createTask" /\ createCalls = 1

\* C24: if every external call and every delay eventually completes, by
\* returning or by failing, processMultipleLeads, once called on n leads,
\* eventually returns its n outcomes; until then it is waiting for an external
\* call, for a delay, or for its own continuation to run.
C24_BatchTerminates ==
  /\ (bpc # "idle") ~> (bpc = "done" /\ Len(results) = Len(leads))
  /\ [](bpc = "processLeadToTask" => pc \in {"createTask", "notifyTaskCreated", "returned"})
  /\ [](bpc \in {"idle", "processLeadToTask", "delay", "done"})

\* A batch of the longest length has returned, with a failed run among its
\* outcomes.
C24_Witness ==
  /\ bpc = "done"
  /\ Len(leads) = MaxLeads /\ Len(results) = MaxLeads
  /\ \E i \in 1..Len(results) : ~results[i].success

\* C25: every outcome returned by processLeadToTask is well-formed:
\* slackNotified implies taskCreated; taskCreated implies success; taskId and
\* taskUrl are present exactly when taskCreated; success = false implies an
\* error message is present and slackNotified = false.
C25_WellFormedOutcome ==
  pc = "returned" =>
    /\ result # None
    /\ result.slackNotified => result.taskCreated
    /\ result.taskCreated => result.success
    /\ "taskId" \in DOMAIN result <=> result.taskCreated
    /\ "taskUrl" \in DOMAIN result <=> result.taskCreated
    /\ result.taskCreated => (result.taskId # "" /\ result.taskUrl # "")
    /\ ~result.success =>
         /\ "error" \in DOMAIN result
         /\ result.error # ""
         /\ ~result.slackNotified

\* The outcome of a run whose notification was rejected after the task had been
\* created: a failure with its message and without task id.
C25_Witness ==
  /\ pc = "returned"
  /\ rejection.call = "notifyTaskCreated"
  /\ createdTask # None
  /\ ~result.success /\ "taskId" \notin DOMAIN result
  /\ result.error = rejection.message

\* C26: for a tier 2 or tier 3 lead the gate's answer depends only on
\* emailsOpened and emailsClicked, not on stage or temperature: a lead whose
\* stage is lost, converted or scheduled passes the gate when its counters
\* meet the threshold; for a tier 1 or tier 4 lead the answer depends only on
\* the stage, not on the counters.
C26_WhatTheGateReads ==
  pc # "idle" =>
    LET passed == Len(steps) > 1
        counters == ({Absent} \cup 0..MaxOpened) \X ({Absent} \cup 0..MaxClicked)
    IN /\ lead.tier \in {2, 3} =>
            \A stage \in LeadStage, temperature \in LeadTemperature :
              isActionReady([lead EXCEPT !.stage = stage] @@ [temperature |-> temperature])
                <=> passed
       /\ lead.tier \in {1, 4} =>
            \A c \in counters, temperature \in LeadTemperature :
              isActionReady([lead EXCEPT !.emailsOpened = c[1], !.emailsClicked = c[2]]
                              @@ [temperature |-> temperature])
                <=> passed
       /\ (/\ lead.stage \in {"lost", "converted", "scheduled"}
           /\ \/ lead.tier = 3 /\ lead.emailsOpened >= 2 /\ lead.emailsClicked >= 1
              \/ lead.tier = 2 /\ (lead.emailsOpened >= 3 \/ lead.emailsClicked >= 1))
            => passed

\* A tier 3 lead whose stage is lost, with 2 opens and 1 click: its task was
\* created.
C26_Witness ==
  /\ pc = "returned"
  /\ lead = [tier |-> 3, stage |-> "lost", emailsOpened |-> 2, emailsClicked |-> 1]
  /\ result.taskCreated

C28_TierMonotone ==
  (call # None /\ call.fn = "calculateLeadTier") =>
    LET l == call.lead
        fields == {"firstName", "lastName", "phone", "email", "condition",
                   "specificCondition", "isPregnant", "birthDate"}
        missing == {f \in fields : f \notin DOMAIN l \/ (f # "isPregnant" /\ l[f] = "")}
        values(f) == IF f = "isPregnant" THEN BOOLEAN ELSE {d[f] : d \in LeadData} \ {""}
        with(f, v) == [g \in DOMAIN l \cup {f} |-> IF g = f THEN v ELSE l[g]]
    IN \A f \in missing : \A v \in values(f) : calculateLeadTier(with(f, v)) >= ret

\* A tier 3 lead that lacks only the pregnancy flag and the birth date: setting
\* isPregnant to false raises it to tier 4.
C28_Witness ==
  /\ call # None /\ call.fn = "calculateLeadTier"
  /\ DOMAIN call.lead = LeadFields \ {"isPregnant", "birthDate"}
  /\ \A f \in DOMAIN call.lead : call.lead[f] # ""
  /\ ret = 3
  /\ calculateLeadTier([isPregnant |-> FALSE] @@ call.lead) = 4

C30_StatusMapping ==
  (call # None /\ call.fn = "handler") =>
    /\ Len(runLog) <= 1
    /\ call.method # "POST" =>
         (ret.status = 405 /\ pc = "idle" /\ createCalls = 0 /\ steps = << >>)
    /\ (call.method = "POST" /\ pc = "returned" /\ ret # None) =>
         /\ (result.success /\ result.taskCreated) =>
              /\ ret.status = 200
              /\ ret.body.taskId = result.taskId /\ ret.body.taskUrl = result.taskUrl
         /\ (result.success /\ ~result.taskCreated) => ret.status = 200
         /\ ~result.success => ret.status = 500
    /\ (ret # None /\ createdTask # None /\ rejection.call = "notifyTaskCreated") =>
         ret.status = 500

\* The request whose run created the task and then failed to notify has been
\* answered 500, with the error and without the task's id.
C30_Witness ==
  /\ call # None /\ call.fn = "handler"
  /\ createdTask # None /\ rejection.call = "notifyTaskCreated"
  /\ ret = [status |-> 500, body |-> [success |-> FALSE, error |-> rejection.message]]
====
